---- MODULE Spec2Model ----
(***************************************************************************)
(* Model of the rhythm-tree pre-render pipeline: PreRenderConverter        *)
(* (classification of a rhythm tree into notes and tuplets, followed by    *)
(* the in-place suffix post-pass).                                         *)
(*                                                                         *)
(* JavaScript objects are records; an optional property that the code does *)
(* not write is a field that is absent from the record's DOMAIN.           *)
(***************************************************************************)
EXTENDS Integers, Sequences, FiniteSets, TLC

VARIABLES
    meter,      \* Fraction passed to convertTreeToPreRender
    rootNode,   \* RhythmNode passed to convertTreeToPreRender
    settings,   \* PreRenderConverter.settings
    pc,         \* position of the convertTreeToPreRender call
    nodes,      \* the PreRenderModel[] built by convertNode, mutated by addSuffix
    calls,      \* log of the convertNode invocations (node id, span, branch, result)
    stack,      \* call stack of addSuffix activations
    warnings,   \* ids for which addSuffix issued console.warn
    probe,      \* input and output of a directly applied pure function
    previous,   \* what an earlier convertTreeToPreRender call on the same inputs returned
    callerOptions,  \* the conversion options the caller of treeToVexflow supplies
    defaultRegistry,  \* VexFlow's static Registry default: the registry new elements join
    elements,   \* every VexFlow element created so far, in creation order
    converters, \* the fields of each VexflowConverter instance
    output      \* the value returned by treeToVexflow

vars == <<meter, rootNode, settings, pc, nodes, calls, stack, warnings, probe,
          previous, callerOptions, defaultRegistry, elements, converters, output>>

\* the state of the rendering side, which the pre-render pipeline never touches
renderVars == <<callerOptions, defaultRegistry, elements, converters, output>>

extVars == <<previous, renderVars>>

pipelineVars == <<meter, rootNode, settings, pc, nodes, calls, stack, warnings>>

-----------------------------------------------------------------------------
(* Bounds of the explored input space *)

MaxNodes == 4       \* nodes in an input rhythm tree
MaxSize == 2        \* largest RhythmNode.size
MaxNum == 5         \* largest meter numerator
MaxDenom == 300     \* largest raw denominator given to convertDenominatorToValidDuration
MaxSpanNum == 5     \* largest span numerator given directly to leaf emission
MaxSpanDenom == 9   \* raw span denominators 1..MaxSpanDenom, plus the notatable ones
MaxRenderNodes == 5  \* nodes in a tree of equal sizes whose classification is rendered
MaxRenderSize == 3   \* largest size in a chain whose classification is rendered
MaxGroupNotes == 3   \* most children, and largest numNotes, of a tuplet given to addSuffix

MeterDenominators == {4, 12}

-----------------------------------------------------------------------------
(* Fraction helper (src/helpers/fraction): value-returning multiply, divide *)
(* and reduce; add accumulates into the receiver.                           *)

Fraction(n, d) == [numerator |-> n, denominator |-> d]

RECURSIVE GCD(_, _)
GCD(a, b) == IF b = 0 THEN a ELSE GCD(b, a % b)

FracMultiply(f, k) == Fraction(f.numerator * k, f.denominator)

FracDivide(f, k) == Fraction(f.numerator, f.denominator * k)

FracReduce(f) ==
    LET g == GCD(f.numerator, f.denominator)
    IN  IF g = 0 THEN f ELSE Fraction(f.numerator \div g, f.denominator \div g)

\* the exact sum, kept in lowest terms
FracAdd(f, other) ==
    FracReduce(Fraction(f.numerator * other.denominator + other.numerator * f.denominator,
                        f.denominator * other.denominator))

\* exact equality of two fractions as rational numbers
FracEq(f, g) == f.numerator * g.denominator = g.numerator * f.denominator

-----------------------------------------------------------------------------
(* Data model *)

validDurations == {1, 2, 4, 8, 16, 32, 64, 128, 256}

defaultSettings == [maxTied |-> 3]

isValidDuration(duration) == duration \in validDurations

RECURSIVE SumSizes(_)
SumSizes(children) ==
    IF children = <<>> THEN 0 ELSE Head(children).size + SumSizes(Tail(children))

getChildrenTotalSize(children) == SumSizes(children)

-----------------------------------------------------------------------------
(* convertDenominatorToValidDuration *)

\* variant: the eighth-note range ends one denominator early
convertDenominatorToValidDuration_EarlyBreak(denominator) ==
    IF denominator = 1 THEN 1
    ELSE IF denominator = 2 \/ denominator = 3 THEN 2
    ELSE IF denominator >= 4 /\ denominator < 8 THEN 4
    ELSE IF denominator >= 8 /\ denominator < 12 THEN 8
    ELSE IF denominator >= 12 /\ denominator < 25 THEN 16
    ELSE IF denominator >= 25 /\ denominator < 55 THEN 32
    ELSE IF denominator >= 55 /\ denominator < 115 THEN 64
    ELSE IF denominator >= 115 /\ denominator < 240 THEN 128
    ELSE 256

convertDenominatorToValidDuration(denominator) ==
    IF denominator = 1 THEN 1
    ELSE IF denominator = 2 \/ denominator = 3 THEN 2
    ELSE IF denominator >= 4 /\ denominator < 8 THEN 4
    ELSE IF denominator >= 8 /\ denominator < 13 THEN 8
    ELSE IF denominator >= 13 /\ denominator < 25 THEN 16
    ELSE IF denominator >= 25 /\ denominator < 55 THEN 32
    ELSE IF denominator >= 55 /\ denominator < 115 THEN 64
    ELSE IF denominator >= 115 /\ denominator < 240 THEN 128
    ELSE 256

-----------------------------------------------------------------------------
(* Leaf emission *)

\* a thrown Error: no value is returned
Thrown == [ok |-> FALSE, els |-> <<>>]

Returned(els) == [ok |-> TRUE, els |-> els]

\* variant: every tied note of an accented node carries the accent
createTiedNote_AccentAll(node, size, durationValue) ==
    IF node.isRest
    THEN [i \in 1..size |->
            [id |-> node.id, kind |-> "Note", duration |-> durationValue,
             isTied |-> FALSE, isRest |-> TRUE, beamID |-> node.beamID]]
    ELSE [i \in 1..(size - 1) |->
            IF node.isAccented = TRUE
            THEN [id |-> node.id, kind |-> "Note", duration |-> durationValue,
                  isTied |-> TRUE, isAccented |-> TRUE, beamID |-> node.beamID]
            ELSE [id |-> node.id, kind |-> "Note", duration |-> durationValue,
                  isTied |-> TRUE, beamID |-> node.beamID]]
         \o <<[id |-> node.id, kind |-> "Note", duration |-> durationValue,
               isTied |-> FALSE, beamID |-> node.beamID]>>

\* variant: a rest is run through the tie loop like a sounding note
createTiedNote_TiedRests(node, size, durationValue) ==
    [i \in 1..(size - 1) |->
        IF i = 1 /\ node.isAccented = TRUE
        THEN [id |-> node.id, kind |-> "Note", duration |-> durationValue,
              isTied |-> TRUE, isAccented |-> TRUE, beamID |-> node.beamID]
        ELSE [id |-> node.id, kind |-> "Note", duration |-> durationValue,
              isTied |-> TRUE, beamID |-> node.beamID]]
    \o <<[id |-> node.id, kind |-> "Note", duration |-> durationValue,
          isTied |-> FALSE, beamID |-> node.beamID]>>

\* variant: the last note of a sounding run is tied like the others
createTiedNote_LastTied(node, size, durationValue) ==
    IF node.isRest
    THEN [i \in 1..size |->
            [id |-> node.id, kind |-> "Note", duration |-> durationValue,
             isTied |-> FALSE, isRest |-> TRUE, beamID |-> node.beamID]]
    ELSE [i \in 1..size |->
            IF i = 1 /\ node.isAccented = TRUE
            THEN [id |-> node.id, kind |-> "Note", duration |-> durationValue,
                  isTied |-> TRUE, isAccented |-> TRUE, beamID |-> node.beamID]
            ELSE [id |-> node.id, kind |-> "Note", duration |-> durationValue,
                  isTied |-> TRUE, beamID |-> node.beamID]]

createTiedNote(node, size, durationValue) ==
    IF node.isRest
    THEN [i \in 1..size |->
            [id |-> node.id, kind |-> "Note", duration |-> durationValue,
             isTied |-> FALSE, isRest |-> TRUE, beamID |-> node.beamID]]
    ELSE [i \in 1..(size - 1) |->
            IF i = 1 /\ node.isAccented = TRUE
            THEN [id |-> node.id, kind |-> "Note", duration |-> durationValue,
                  isTied |-> TRUE, isAccented |-> TRUE, beamID |-> node.beamID]
            ELSE [id |-> node.id, kind |-> "Note", duration |-> durationValue,
                  isTied |-> TRUE, beamID |-> node.beamID]]
         \o <<[id |-> node.id, kind |-> "Note", duration |-> durationValue,
               isTied |-> FALSE, beamID |-> node.beamID]>>

\* variant: the denominator is not validated before the note is built
convertToNote_NoValidation(node, containingSpace) ==
    LET noteThatGetsValue == containingSpace.denominator
    IN  IF Len(node.children) > 0 THEN Thrown
        ELSE IF containingSpace.numerator > 1
        THEN Returned(createTiedNote(node, containingSpace.numerator, noteThatGetsValue))
        ELSE Returned(<<[id |-> node.id, kind |-> "Note", duration |-> noteThatGetsValue,
                         isRest |-> node.isRest, isAccented |-> node.isAccented,
                         beamID |-> node.beamID]>>)

convertToNote(node, containingSpace) ==
    LET noteThatGetsValue == containingSpace.denominator
    IN  IF Len(node.children) > 0 THEN Thrown
        ELSE IF ~isValidDuration(noteThatGetsValue) THEN Thrown
        ELSE IF containingSpace.numerator > 1
        THEN Returned(createTiedNote(node, containingSpace.numerator, noteThatGetsValue))
        ELSE Returned(<<[id |-> node.id, kind |-> "Note", duration |-> noteThatGetsValue,
                         isRest |-> node.isRest, isAccented |-> node.isAccented,
                         beamID |-> node.beamID]>>)

-----------------------------------------------------------------------------
(* Recursive classifier.  A result carries the returned elements and the   *)
(* log of the convertNode invocations made to compute it.                  *)

Call(node, span, branch, els) ==
    [id |-> node.id, span |-> span, branch |-> branch, els |-> els]

\* variant: the cap is compared strictly
plainBranch_Strict(childDuration, maxTied) ==
    isValidDuration(childDuration.denominator) /\ childDuration.numerator < maxTied

\* variant: the denominator of the child unit span is not looked at
plainBranch_AnyDenominator(childDuration, maxTied) ==
    childDuration.numerator <= maxTied

plainBranch(childDuration, maxTied) ==
    isValidDuration(childDuration.denominator) /\ childDuration.numerator <= maxTied

RECURSIVE convertNode(_, _, _), convertNodeArray(_, _, _), convertToTuplet(_, _, _)

\* variant: a child's span is not scaled by its size
convertNodeArray_Unscaled(ns, childDuration, maxTied) ==
    IF ns = <<>> THEN [ok |-> TRUE, els |-> <<>>, calls |-> {}]
    ELSE LET node == Head(ns)
             converted == convertNode(node, childDuration, maxTied)
         IN  IF ~converted.ok THEN [ok |-> FALSE, els |-> <<>>, calls |-> converted.calls]
             ELSE LET rest == convertNodeArray(Tail(ns), childDuration, maxTied)
                  IN  [ok |-> rest.ok,
                       els |-> IF rest.ok THEN converted.els \o rest.els ELSE <<>>,
                       calls |-> converted.calls \cup rest.calls]

\* variant: the elements of a child are put before those of its left siblings
convertNodeArray_Prepending(ns, childDuration, maxTied) ==
    IF ns = <<>> THEN [ok |-> TRUE, els |-> <<>>, calls |-> {}]
    ELSE LET node == Head(ns)
             currentDuration == FracMultiply(childDuration, node.size)
             converted == convertNode(node, currentDuration, maxTied)
         IN  IF ~converted.ok THEN [ok |-> FALSE, els |-> <<>>, calls |-> converted.calls]
             ELSE LET rest == convertNodeArray(Tail(ns), childDuration, maxTied)
                  IN  [ok |-> rest.ok,
                       els |-> IF rest.ok THEN rest.els \o converted.els ELSE <<>>,
                       calls |-> converted.calls \cup rest.calls]

convertNodeArray(ns, childDuration, maxTied) ==
    IF ns = <<>> THEN [ok |-> TRUE, els |-> <<>>, calls |-> {}]
    ELSE LET node == Head(ns)
             currentDuration == FracMultiply(childDuration, node.size)
             converted == convertNode(node, currentDuration, maxTied)
         IN  IF ~converted.ok THEN [ok |-> FALSE, els |-> <<>>, calls |-> converted.calls]
             ELSE LET rest == convertNodeArray(Tail(ns), childDuration, maxTied)
                  IN  [ok |-> rest.ok,
                       els |-> IF rest.ok THEN converted.els \o rest.els ELSE <<>>,
                       calls |-> converted.calls \cup rest.calls]

\* variant: notesOccupied is taken from the reduced child unit span
convertToTuplet_ReducedNumerator(node, containingSpace, maxTied) ==
    LET numNotes == getChildrenTotalSize(node.children)
        childSize == Fraction(1, containingSpace.denominator)
        notesOccupied == FracReduce(FracDivide(containingSpace, numNotes)).numerator
        children == convertNodeArray(node.children, childSize, maxTied)
    IN  [ok |-> children.ok,
         els |-> IF children.ok
                 THEN <<[id |-> node.id, kind |-> "Tuplet", children |-> children.els,
                         numNotes |-> numNotes, notesOccupied |-> notesOccupied]>>
                 ELSE <<>>,
         calls |-> children.calls]

convertToTuplet(node, containingSpace, maxTied) ==
    LET numNotes == getChildrenTotalSize(node.children)
        childSize == Fraction(1, containingSpace.denominator)
        notesOccupied == containingSpace.numerator
        children == convertNodeArray(node.children, childSize, maxTied)
    IN  [ok |-> children.ok,
         els |-> IF children.ok
                 THEN <<[id |-> node.id, kind |-> "Tuplet", children |-> children.els,
                         numNotes |-> numNotes, notesOccupied |-> notesOccupied]>>
                 ELSE <<>>,
         calls |-> children.calls]

convertNode(node, containingSpace, maxTied) ==
    IF Len(node.children) = 0
    THEN LET r == convertToNote(node, containingSpace)
         IN  [ok |-> r.ok, els |-> r.els,
              calls |-> {Call(node, containingSpace, IF r.ok THEN "leaf" ELSE "thrown", r.els)}]
    ELSE LET childrenSize == getChildrenTotalSize(node.children)
             childDuration == FracReduce(FracDivide(containingSpace, childrenSize))
         IN  IF plainBranch(childDuration, maxTied)
             THEN LET r == convertNodeArray(node.children, childDuration, maxTied)
                  IN  [ok |-> r.ok, els |-> r.els,
                       calls |-> r.calls \cup
                           {Call(node, containingSpace, IF r.ok THEN "plain" ELSE "thrown", r.els)}]
             ELSE LET r == convertToTuplet(node, containingSpace, maxTied)
                  IN  [ok |-> r.ok, els |-> r.els,
                       calls |-> r.calls \cup
                           {Call(node, containingSpace, IF r.ok THEN "tuplet" ELSE "thrown", r.els)}]

-----------------------------------------------------------------------------
(* Suffix post-pass: addSuffix mutates the tuplets of `nodes` in place.    *)
(* An element of `nodes` is addressed by its path of child indices.        *)

RECURSIVE At(_, _)
At(models, path) ==
    IF Len(path) = 1 THEN models[path[1]]
    ELSE At(models[path[1]].children, Tail(path))

HasSuffix(model) == "suffix" \in DOMAIN model

RECURSIVE SetSuffix(_, _, _)
SetSuffix(models, path, value) ==
    LET model == models[path[1]]
    IN  [models EXCEPT ![path[1]] =
            IF Len(path) = 1
            THEN [suffix |-> value] @@ [f \in DOMAIN model \ {"suffix"} |-> model[f]]
            ELSE [model EXCEPT !.children = SetSuffix(model.children, Tail(path), value)]]

\* activation of addSuffix(models): i is the index of the model being
\* visited, j the index of the child being visited (0: at the loop head),
\* totalDuration the accumulator of the model being visited
Activation(paths) ==
    [models |-> paths, i |-> 1, j |-> 0, totalDuration |-> Fraction(0, 1)]

TopPaths(models) == [k \in 1..Len(models) |-> <<k>>]

Top == stack[Len(stack)]

Current == At(nodes, Top.models[Top.i])

ReplaceTop(frame) == [stack EXCEPT ![Len(stack)] = frame]

Throw ==
    /\ pc' = "failed"
    /\ stack' = <<>>
    /\ UNCHANGED <<nodes, warnings>>

-----------------------------------------------------------------------------
(* Inputs *)

LeafKinds ==
    <<[isRest |-> FALSE, isAccented |-> FALSE, beamID |-> "null"],
      [isRest |-> FALSE, isAccented |-> TRUE,  beamID |-> "b1"],
      [isRest |-> TRUE,  isAccented |-> FALSE, beamID |-> "b1"],
      [isRest |-> TRUE,  isAccented |-> TRUE,  beamID |-> "null"]>>

RECURSIVE ShapesOf(_), ForestsOf(_)
\* the trees of exactly n nodes, as [size, children]
ShapesOf(n) ==
    IF n = 0 THEN {}
    ELSE {[size |-> s, children |-> f] : s \in 1..MaxSize, f \in ForestsOf(n - 1)}

\* the sequences of trees of k nodes in total
ForestsOf(k) ==
    IF k = 0 THEN {<<>>}
    ELSE UNION {{<<t>> \o f : t \in ShapesOf(j), f \in ForestsOf(k - j)} : j \in 1..k}

Shapes == UNION {{[size |-> 1, children |-> f] : f \in ForestsOf(n - 1)} : n \in 1..MaxNodes}

RECURSIVE SumSeq(_)
SumSeq(s) == IF s = <<>> THEN 0 ELSE Head(s) + SumSeq(Tail(s))

\* a RhythmNode of the given shape; ids are the positions in the tree and
\* the flags rotate through LeafKinds starting at k
RECURSIVE RhythmNode(_, _, _)
RhythmNode(shape, id, k) ==
    LET kind == LeafKinds[((k + SumSeq(id)) % Len(LeafKinds)) + 1]
    IN  [id |-> id, size |-> shape.size,
         children |-> [c \in 1..Len(shape.children) |->
                          RhythmNode(shape.children[c], id \o <<c>>, k)],
         isRest |-> kind.isRest, isAccented |-> kind.isAccented, beamID |-> kind.beamID]

\* the root is a sounding note (offset 0) or a rest (offset 2)
KindOffsets == {0, 2}

PreRenderConverterOptions == {<<>>, [maxTied |-> 2]}

NoProbe == [op |-> "none"]

-----------------------------------------------------------------------------
(* convertTreeToPreRender *)

\* no earlier call, no VexflowConverter constructed, nothing rendered
NoRun == [runs |-> 0]

NoOutput == [returned |-> FALSE]

Unrendered ==
    /\ previous = NoRun
    /\ callerOptions = <<>>
    /\ defaultRegistry = 0
    /\ elements = <<>>
    /\ converters = <<>>
    /\ output = NoOutput

Init ==
    /\ \E n \in 1..MaxNum, d \in MeterDenominators : meter = Fraction(n, d)
    /\ \E shape \in Shapes, k \in KindOffsets : rootNode = RhythmNode(shape, <<0>>, k)
    /\ \E options \in PreRenderConverterOptions : settings = options @@ defaultSettings
    /\ pc = "start"
    /\ nodes = <<>>
    /\ calls = {}
    /\ stack = <<>>
    /\ warnings = {}
    /\ probe = NoProbe
    /\ Unrendered

\* variant: the normalised meter is written back into the caller's meter
ConvertTree_AdjustsMeter ==
    /\ pc = "start"
    /\ LET adjustedDenom == convertDenominatorToValidDuration(meter.denominator)
           adjustedMeter == Fraction(meter.numerator, adjustedDenom)
           r == convertNode(rootNode, adjustedMeter, settings.maxTied)
       IN  /\ meter' = adjustedMeter
           /\ calls' = r.calls
           /\ IF r.ok
              THEN /\ nodes' = r.els
                   /\ pc' = "addSuffix"
                   /\ stack' = <<Activation(TopPaths(r.els))>>
              ELSE /\ nodes' = <<>>
                   /\ pc' = "failed"
                   /\ stack' = <<>>
    /\ UNCHANGED <<rootNode, settings, warnings, probe, extVars>>

\* variant: the classified elements are appended to what an earlier call left
ConvertTree_Accumulating ==
    /\ pc = "start"
    /\ LET adjustedDenom == convertDenominatorToValidDuration(meter.denominator)
           adjustedMeter == Fraction(meter.numerator, adjustedDenom)
           r == convertNode(rootNode, adjustedMeter, settings.maxTied)
       IN  /\ calls' = r.calls
           /\ IF r.ok
              THEN /\ nodes' = nodes \o r.els
                   /\ pc' = "addSuffix"
                   /\ stack' = <<Activation(TopPaths(nodes \o r.els))>>
              ELSE /\ nodes' = <<>>
                   /\ pc' = "failed"
                   /\ stack' = <<>>
    /\ UNCHANGED <<meter, rootNode, settings, warnings, probe, extVars>>

\* lines 38-43: normalise the meter, classify the tree, enter addSuffix(nodes)
ConvertTree ==
    /\ pc = "start"
    /\ LET adjustedDenom == convertDenominatorToValidDuration(meter.denominator)
           adjustedMeter == Fraction(meter.numerator, adjustedDenom)
           r == convertNode(rootNode, adjustedMeter, settings.maxTied)
       IN  /\ calls' = r.calls
           /\ IF r.ok
              THEN /\ nodes' = r.els
                   /\ pc' = "addSuffix"
                   /\ stack' = <<Activation(TopPaths(r.els))>>
              ELSE /\ nodes' = <<>>
                   /\ pc' = "failed"
                   /\ stack' = <<>>
    /\ UNCHANGED <<meter, rootNode, settings, warnings, probe, extVars>>

\* variant: a tuplet is taken up without the two checks
AddSuffixModel_NoValidation ==
    /\ pc = "addSuffix"
    /\ stack # <<>>
    /\ Top.j = 0
    /\ Top.i <= Len(Top.models)
    /\ IF Current.kind # "Tuplet"
       THEN stack' = ReplaceTop([Top EXCEPT !.i = @ + 1])
       ELSE stack' = ReplaceTop([Top EXCEPT !.j = 1, !.totalDuration = Fraction(0, 1)])
    /\ UNCHANGED <<meter, rootNode, settings, pc, nodes, calls, warnings, probe, extVars>>

\* head of `for (const model of models)`: skip a note, validate a tuplet
AddSuffixModel ==
    /\ pc = "addSuffix"
    /\ stack # <<>>
    /\ Top.j = 0
    /\ Top.i <= Len(Top.models)
    /\ IF Current.kind # "Tuplet"
       THEN /\ stack' = ReplaceTop([Top EXCEPT !.i = @ + 1])
            /\ UNCHANGED <<pc, nodes, warnings>>
       ELSE IF Len(Current.children) = 0 \/ Current.numNotes = 0
       THEN Throw
       ELSE /\ stack' = ReplaceTop([Top EXCEPT !.j = 1, !.totalDuration = Fraction(0, 1)])
            /\ UNCHANGED <<pc, nodes, warnings>>
    /\ UNCHANGED <<meter, rootNode, settings, calls, probe, extVars>>

\* child is a note: totalDuration.add(1 / child.duration)
AddSuffixChildNote ==
    /\ pc = "addSuffix"
    /\ stack # <<>>
    /\ Top.j >= 1
    /\ Top.j <= Len(Current.children)
    /\ LET child == Current.children[Top.j]
       IN  /\ child.kind = "Note"
           /\ stack' = ReplaceTop([Top EXCEPT
                  !.j = @ + 1,
                  !.totalDuration = FracAdd(@, Fraction(1, child.duration))])
    /\ UNCHANGED <<meter, rootNode, settings, pc, nodes, calls, warnings, probe, extVars>>

\* variant: a nested tuplet is passed over without the recursive call
AddSuffixChildTuplet_NoRecursion ==
    /\ pc = "addSuffix"
    /\ stack # <<>>
    /\ Top.j >= 1
    /\ Top.j <= Len(Current.children)
    /\ Current.children[Top.j].kind = "Tuplet"
    /\ stack' = ReplaceTop([Top EXCEPT
           !.j = @ + 1,
           !.totalDuration = FracAdd(@, Fraction(Current.children[Top.j].notesOccupied,
                                                 Current.children[Top.j].numNotes))])
    /\ UNCHANGED <<meter, rootNode, settings, pc, nodes, calls, warnings, probe, extVars>>

\* child is a tuplet: this.addSuffix([child])
AddSuffixChildTuplet ==
    /\ pc = "addSuffix"
    /\ stack # <<>>
    /\ Top.j >= 1
    /\ Top.j <= Len(Current.children)
    /\ Current.children[Top.j].kind = "Tuplet"
    /\ stack' = Append(stack, Activation(<<Top.models[Top.i] \o <<Top.j>>>>))
    /\ UNCHANGED <<meter, rootNode, settings, pc, nodes, calls, warnings, probe, extVars>>

\* the nested addSuffix([child]) returns: check child.suffix and add
\* child.notesOccupied / child.suffix to the caller's totalDuration
AddSuffixReturnNested ==
    /\ pc = "addSuffix"
    /\ Len(stack) > 1
    /\ Top.j = 0
    /\ Top.i > Len(Top.models)
    /\ LET caller == stack[Len(stack) - 1]
           child == At(nodes, caller.models[caller.i]).children[caller.j]
       IN  IF ~HasSuffix(child) \/ child.suffix = 0
           THEN Throw
           ELSE /\ stack' = [SubSeq(stack, 1, Len(stack) - 1) EXCEPT ![Len(stack) - 1] =
                      [caller EXCEPT
                          !.j = @ + 1,
                          !.totalDuration =
                              FracAdd(@, Fraction(child.notesOccupied, child.suffix))]]
                /\ UNCHANGED <<pc, nodes, warnings>>
    /\ UNCHANGED <<meter, rootNode, settings, calls, probe, extVars>>

\* variant: unitSize is not reduced before its denominator is taken
AddSuffixAssign_Unreduced ==
    /\ pc = "addSuffix"
    /\ stack # <<>>
    /\ Top.j >= 1
    /\ Top.j > Len(Current.children)
    /\ LET unitSize == FracDivide(Top.totalDuration, Current.numNotes)
       IN  /\ warnings' = IF unitSize.numerator # 1
                          THEN warnings \cup {Current.id} ELSE warnings
           /\ nodes' = SetSuffix(nodes, Top.models[Top.i], unitSize.denominator)
    /\ stack' = ReplaceTop([Top EXCEPT !.i = @ + 1, !.j = 0])
    /\ UNCHANGED <<meter, rootNode, settings, pc, calls, probe, extVars>>

\* all children visited: unitSize, the non-unit warning, model.suffix
AddSuffixAssign ==
    /\ pc = "addSuffix"
    /\ stack # <<>>
    /\ Top.j >= 1
    /\ Top.j > Len(Current.children)
    /\ LET unitSize == FracReduce(FracDivide(Top.totalDuration, Current.numNotes))
       IN  /\ warnings' = IF unitSize.numerator # 1
                          THEN warnings \cup {Current.id} ELSE warnings
           /\ nodes' = SetSuffix(nodes, Top.models[Top.i], unitSize.denominator)
    /\ stack' = ReplaceTop([Top EXCEPT !.i = @ + 1, !.j = 0])
    /\ UNCHANGED <<meter, rootNode, settings, pc, calls, probe, extVars>>

\* addSuffix(nodes) returns to convertTreeToPreRender, which returns nodes
ReturnNodes ==
    /\ pc = "addSuffix"
    /\ Len(stack) = 1
    /\ Top.j = 0
    /\ Top.i > Len(Top.models)
    /\ pc' = "done"
    /\ stack' = <<>>
    /\ UNCHANGED <<meter, rootNode, settings, nodes, calls, warnings, probe, extVars>>

Next ==
    \/ ConvertTree
    \/ AddSuffixModel
    \/ AddSuffixChildNote
    \/ AddSuffixChildTuplet
    \/ AddSuffixReturnNested
    \/ AddSuffixAssign
    \/ ReturnNodes

Spec == Init /\ [][Next]_vars

-----------------------------------------------------------------------------
(* convertTreeToPreRender on meters with a coarse, a fine and an            *)
(* out-of-table denominator, and on trees that put a leaf beside a node     *)
(* with two leaves                                                          *)

FineDenominators == {4, 128, 300}

MixedShapes ==
    LET Leaf(s) == [size |-> s, children |-> <<>>]
    IN  {[size |-> 1,
          children |-> <<Leaf(a), [size |-> b, children |-> <<Leaf(c), Leaf(d)>>]>>] :
            a, b, c, d \in 1..MaxSize}

FineShapes == Shapes \cup MixedShapes

FineOffsets == {0}

InitFine ==
    /\ \E n \in 1..MaxNum, d \in FineDenominators : meter = Fraction(n, d)
    /\ \E shape \in FineShapes, k \in FineOffsets : rootNode = RhythmNode(shape, <<0>>, k)
    /\ \E options \in PreRenderConverterOptions : settings = options @@ defaultSettings
    /\ pc = "start"
    /\ nodes = <<>>
    /\ calls = {}
    /\ stack = <<>>
    /\ warnings = {}
    /\ probe = NoProbe
    /\ Unrendered

SpecFine == InitFine /\ [][Next]_vars

-----------------------------------------------------------------------------
(* convertTreeToPreRender called a second time with the same arguments *)

RepeatOffsets == {0}

InitRepeat ==
    /\ \E n \in 1..MaxNum, d \in MeterDenominators : meter = Fraction(n, d)
    /\ \E shape \in Shapes, k \in RepeatOffsets : rootNode = RhythmNode(shape, <<0>>, k)
    /\ \E opts \in PreRenderConverterOptions : settings = opts @@ defaultSettings
    /\ pc = "start"
    /\ nodes = <<>>
    /\ calls = {}
    /\ stack = <<>>
    /\ warnings = {}
    /\ probe = NoProbe
    /\ Unrendered

\* the caller keeps the first result and calls again, on the same converter
\* or on a new PreRenderConverter({maxTied}) built with the same maxTied
ConvertAgain ==
    /\ pc = "done"
    /\ previous.runs = 0
    /\ previous' = [runs |-> 1, nodes |-> nodes]
    /\ \E fresh \in BOOLEAN :
          settings' = IF fresh THEN [maxTied |-> settings.maxTied] @@ defaultSettings
                      ELSE settings
    /\ pc' = "start"
    /\ UNCHANGED <<meter, rootNode, nodes, calls, stack, warnings, probe, renderVars>>

NextRepeat == Next \/ ConvertAgain

SpecRepeat == InitRepeat /\ [][NextRepeat]_vars

-----------------------------------------------------------------------------
(* addSuffix applied directly to a PreRenderModel[] that the classifier     *)
(* need not have built: tuplets of 0..MaxGroupNotes eighth notes with       *)
(* numNotes in 0..MaxGroupNotes, alone, nested in another tuplet, or after  *)
(* a well-formed triplet.                                                   *)

Eighths(id, n) ==
    [k \in 1..n |-> [id |-> id \o <<k>>, kind |-> "Note", duration |-> 8, beamID |-> "null"]]

Group(id, children, numNotes) ==
    [id |-> id, kind |-> "Tuplet", children |-> children,
     numNotes |-> numNotes, notesOccupied |-> 1]

GroupsAt(id) ==
    {Group(id, Eighths(id, n), numNotes) : n \in 0..MaxGroupNotes, numNotes \in 0..MaxGroupNotes}

SuffixInputs ==
    {<<g>> : g \in GroupsAt(<<1>>)}
    \cup {<<Group(<<1>>, Eighths(<<1>>, 1) \o <<g>>, numNotes)>> :
              g \in GroupsAt(<<1, 2>>), numNotes \in 0..MaxGroupNotes}
    \cup {<<Group(<<1>>, Eighths(<<1>>, 3), 3), g>> : g \in GroupsAt(<<2>>)}

InitSuffix ==
    /\ meter = Fraction(1, 1)
    /\ rootNode = RhythmNode([size |-> 1, children |-> <<>>], <<0>>, 0)
    /\ settings = defaultSettings
    /\ pc = "addSuffix"
    /\ nodes \in SuffixInputs
    /\ stack = <<Activation(TopPaths(nodes))>>
    /\ calls = {}
    /\ warnings = {}
    /\ probe = NoProbe
    /\ Unrendered

NextSuffix ==
    \/ AddSuffixModel
    \/ AddSuffixChildNote
    \/ AddSuffixChildTuplet
    \/ AddSuffixReturnNested
    \/ AddSuffixAssign
    \/ ReturnNodes

SpecSuffix == InitSuffix /\ [][NextSuffix]_vars


Idle ==
    /\ meter = Fraction(1, 1)
    /\ rootNode = RhythmNode([size |-> 1, children |-> <<>>], <<0>>, 0)
    /\ settings = defaultSettings
    /\ pc = "idle"
    /\ nodes = <<>>
    /\ calls = {}
    /\ stack = <<>>
    /\ warnings = {}
    /\ Unrendered

ProbeNodes ==
    {RhythmNode([size |-> 1, children |-> f], <<0>>, k) :
        f \in {<<>>, <<[size |-> 1, children |-> <<>>]>>}, k \in 0..(Len(LeafKinds) - 1)}

InitLeaf ==
    /\ Idle
    /\ \E node \in ProbeNodes, n \in 1..MaxSpanNum,
          d \in (1..MaxSpanDenom) \cup validDurations :
          probe = [op |-> "convertToNote", node |-> node, containingSpace |-> Fraction(n, d)]

ApplyConvertToNote ==
    /\ probe.op = "convertToNote"
    /\ "out" \notin DOMAIN probe
    /\ probe' = [out |-> convertToNote(probe.node, probe.containingSpace)] @@ probe
    /\ UNCHANGED <<pipelineVars, extVars>>

\* the classifier applied directly to a small tree and an arbitrary span
ProbeTrees ==
    {RhythmNode([size |-> 1, children |-> f], <<0>>, 0) :
        f \in {<<[size |-> 1, children |-> <<>>]>>,
               <<[size |-> 1, children |-> <<>>], [size |-> 2, children |-> <<>>]>>}}

InitClassify ==
    /\ Idle
    /\ \E node \in ProbeTrees, n \in 1..MaxSpanNum,
          d \in (1..MaxSpanDenom) \cup validDurations :
          probe = [op |-> "convertNode", node |-> node, containingSpace |-> Fraction(n, d)]

ApplyConvertNode ==
    /\ probe.op = "convertNode"
    /\ "out" \notin DOMAIN probe
    /\ probe' = [out |-> convertNode(probe.node, probe.containingSpace,
                                     defaultSettings.maxTied)] @@ probe
    /\ UNCHANGED <<pipelineVars, extVars>>

NextLeaf == ApplyConvertToNote \/ ApplyConvertNode

SpecLeaf == (InitLeaf \/ InitClassify) /\ [][NextLeaf]_vars

-----------------------------------------------------------------------------
(* convertDenominatorToValidDuration applied directly to a denominator *)

InitDenominator ==
    /\ Idle
    /\ \E d \in 1..MaxDenom :
          probe = [op |-> "convertDenominatorToValidDuration", denominator |-> d]

ApplyConvertDenominator ==
    /\ probe.op = "convertDenominatorToValidDuration"
    /\ "out" \notin DOMAIN probe
    /\ probe' = [out |-> convertDenominatorToValidDuration(probe.denominator)] @@ probe
    /\ UNCHANGED <<pipelineVars, extVars>>

NextDenominator == ApplyConvertDenominator

SpecDenominator == InitDenominator /\ [][NextDenominator]_vars

-----------------------------------------------------------------------------
(* VexFlow, the rendering library.  An element is a record of `elements`;   *)
(* a reference to an element is its position in `elements`.  Every element  *)
(* is given the next "auto<n>" id by its constructor and joins the registry *)
(* that is the static default at that moment.  A registry is named by the   *)
(* number of the converter that created it; 0 means no default registry.    *)

\* Element.newID(): the string "auto" followed by a counter; no node id,
\* which is a path of child indices, has this form
AutoID(n) == <<-1, n>>

\* Element constructor: next id, Registry.getDefaultRegistry()?.register(this)
NewElement(elems, default, fields) ==
    Append(elems, [id |-> AutoID(Len(elems) + 1), registry |-> default] @@ fields)

\* Registry.getElementById: the element that registry `reg` holds under `id`, 0 if none
getElementById(elems, reg, id) ==
    IF \E e \in 1..Len(elems) : elems[e].registry = reg /\ elems[e].id = id
    THEN CHOOSE e \in 1..Len(elems) : elems[e].registry = reg /\ elems[e].id = id
    ELSE 0

\* the duration a StaveNote reports for the duration string it was built with
getDuration(durationString) ==
    CASE durationString = "w" -> "1"
      [] durationString = "h" -> "2"
      [] durationString = "q" -> "4"
      [] OTHER -> durationString

\* helpers/isValidToBeam: notes shorter than a quarter note can be beamed
isValidToBeam(duration) == duration \in {"8", "16", "32", "64", "128", "256"}

-----------------------------------------------------------------------------
(* VexflowConverter.  A JavaScript object used as a map is a sequence of    *)
(* [key, value] entries in insertion order.                                 *)

HasKey(map, key) == \E i \in 1..Len(map) : map[i].key = key

Lookup(map, key) == map[CHOOSE i \in 1..Len(map) : map[i].key = key].value

Assign(map, key, value) ==
    IF HasKey(map, key)
    THEN [i \in 1..Len(map) |-> IF map[i].key = key THEN [key |-> key, value |-> value]
                                ELSE map[i]]
    ELSE Append(map, [key |-> key, value |-> value])

Unconstructed == [constructed |-> FALSE]

\* lines 46-56; the registry of converter c is registry c
NewVexflowConverter(c) ==
    [constructed |-> TRUE, registry |-> c,
     engineToRenderNotes |-> <<>>, renderNotesToEngine |-> <<>>,
     engineToRenderTies |-> <<>>, renderTiesToEngine |-> <<>>,
     settings |-> [noteName |-> "B/4"],
     warned |-> <<>>, processed |-> FALSE]

durationToString(duration) ==
    CASE duration = 1 -> "w"
      [] duration = 2 -> "h"
      [] duration = 4 -> "q"
      [] duration = 8 -> "8"
      [] duration = 16 -> "16"
      [] duration = 32 -> "32"
      [] duration = 64 -> "64"
      [] duration = 128 -> "128"
      [] duration = 256 -> "256"

\* a world is [ok, elements, cv]: whether no error was thrown, VexFlow's
\* elements, and the fields of the converter that is running

generateNoteMaps(cv, engineID, vexID) ==
    [cv EXCEPT
        !.engineToRenderNotes =
            IF ~HasKey(@, engineID) THEN Append(@, [key |-> engineID, value |-> <<vexID>>])
            ELSE Assign(@, engineID, Append(Lookup(@, engineID), vexID)),
        !.renderNotesToEngine = Assign(@, vexID, engineID)]

generateTieMaps(cv, engineID, vexID) ==
    [cv EXCEPT
        !.engineToRenderTies =
            IF ~HasKey(@, engineID) THEN Append(@, [key |-> engineID, value |-> <<vexID>>])
            ELSE Assign(@, engineID, Append(Lookup(@, engineID), vexID)),
        !.renderTiesToEngine = Assign(@, vexID, engineID)]

\* an optional boolean property read through a default parameter value
Default(model, field, value) == IF field \in DOMAIN model THEN model[field] ELSE value

\* lines 156-189
createNoteWithDuration(w, default, model) ==
    LET isRest == Default(model, "isRest", FALSE)
        isAccented == Default(model, "isAccented", FALSE)
        durationString == durationToString(model.duration)
        note == [type |-> "StaveNote", duration |-> getDuration(durationString),
                 rest |-> isRest,
                 modifiers |-> IF isAccented = TRUE /\ isRest = FALSE THEN {"a>"} ELSE {}]
        attributed == IF model.beamID # "null" /\ model.beamID # ""
                      THEN [beamID |-> model.beamID] @@ note
                      ELSE note
        elems == NewElement(w.elements, default, attributed)
    IN  [w |-> [w EXCEPT !.elements = elems,
                         !.cv = generateNoteMaps(@, model.id, elems[Len(elems)].id)],
         notes |-> <<Len(elems)>>]

\* lines 131-137
renderNote(w, default, model) ==
    IF model.duration \notin {1, 2, 4, 8, 16, 32, 64, 128, 256}
    THEN [w |-> [w EXCEPT !.ok = FALSE], notes |-> <<>>]
    ELSE createNoteWithDuration(w, default, model)

\* the loop of lines 246-273 from position i on; tieSet keeps insertion order
RECURSIVE tiePairs(_, _, _, _, _)
tiePairs(w, default, renderedIDs, i, tieSet) ==
    IF i > Len(renderedIDs) - 1 THEN [w |-> w, tieSet |-> tieSet]
    ELSE LET currentElement == getElementById(w.elements, w.cv.registry, renderedIDs[i])
             nextElement == getElementById(w.elements, w.cv.registry, renderedIDs[i + 1])
         IN  IF currentElement = 0 \/ nextElement = 0
             THEN tiePairs([w EXCEPT !.cv.warned =
                                Append(@, <<renderedIDs[i], renderedIDs[i + 1]>>)],
                           default, renderedIDs, i + 1, tieSet)
             ELSE IF Default(w.elements[currentElement], "rest", FALSE)
                     \/ Default(w.elements[nextElement], "rest", FALSE)
             THEN tiePairs(w, default, renderedIDs, i + 1, tieSet)
             ELSE LET elems == NewElement(w.elements, default,
                                          [type |-> "StaveTie", from |-> currentElement,
                                           to |-> nextElement])
                  IN  tiePairs([w EXCEPT !.elements = elems], default, renderedIDs, i + 1,
                               Append(tieSet, elems[Len(elems)].id))

RECURSIVE tieMapsFor(_, _, _)
tieMapsFor(cv, engineID, newTieChildren) ==
    IF newTieChildren = <<>> THEN cv
    ELSE tieMapsFor(generateTieMaps(cv, engineID, Head(newTieChildren)), engineID,
                    Tail(newTieChildren))

\* lines 236-284
generateTies(w, default, engineID) ==
    IF ~HasKey(w.cv.engineToRenderNotes, engineID)
       \/ Len(Lookup(w.cv.engineToRenderNotes, engineID)) = 0
    THEN w
    ELSE LET r == tiePairs(w, default, Lookup(w.cv.engineToRenderNotes, engineID), 1, <<>>)
         IN  [r.w EXCEPT !.cv = tieMapsFor(@, engineID, r.tieSet)]

\* lines 75-77: `for (const engineID in this.engineToRenderNotes)`
RECURSIVE tiesForAll(_, _, _)
tiesForAll(w, default, engineIDs) ==
    IF engineIDs = <<>> THEN w
    ELSE tiesForAll(generateTies(w, default, Head(engineIDs)), default, Tail(engineIDs))

\* lines 288-294: the notes grouped by their beamID attribute
RECURSIVE groupsOf(_, _, _)
groupsOf(elems, notes, groups) ==
    IF notes = <<>> THEN groups
    ELSE LET note == elems[Head(notes)]
         IN  IF "beamID" \notin DOMAIN note
             THEN groupsOf(elems, Tail(notes), groups)
             ELSE groupsOf(elems, Tail(notes),
                           IF ~HasKey(groups, note.beamID)
                           THEN Append(groups, [key |-> note.beamID, value |-> <<Head(notes)>>])
                           ELSE Assign(groups, note.beamID,
                                       Append(Lookup(groups, note.beamID), Head(notes))))

\* lines 297-310 from group g on
RECURSIVE beamGroups(_, _, _, _)
beamGroups(w, default, groups, g) ==
    IF g > Len(groups) THEN w
    ELSE LET groupNotes == groups[g].value
             allBeamable == \A k \in 1..Len(groupNotes) :
                                isValidToBeam(w.elements[groupNotes[k]].duration)
         IN  IF Len(groupNotes) < 2 \/ ~allBeamable
             THEN beamGroups(w, default, groups, g + 1)
             ELSE beamGroups([w EXCEPT !.elements =
                                 NewElement(@, default, [type |-> "Beam",
                                                         notes |-> groupNotes])],
                             default, groups, g + 1)

\* lines 286-311
beamByGroup(w, default, notes) ==
    beamGroups(w, default, groupsOf(w.elements, notes, <<>>), 1)

Keys(map) == [i \in 1..Len(map) |-> map[i].key]

RECURSIVE processNodes(_, _, _), renderEach(_, _, _), renderTuplet(_, _, _)
\* lines 69-72 and 122-129: render the models in order, until one throws
renderEach(w, default, models) ==
    IF models = <<>> \/ ~w.ok THEN [w |-> w, notes |-> <<>>]
    ELSE LET first == IF Head(models).kind = "Note"
                      THEN renderNote(w, default, Head(models))
                      ELSE renderTuplet(w, default, Head(models))
             rest == renderEach(first.w, default, Tail(models))
         IN  [w |-> rest.w, notes |-> first.notes \o rest.notes]

\* lines 65-83
processNodes(w, default, models) ==
    LET rendered == renderEach(w, default, models)
    IN  IF ~rendered.w.ok THEN [w |-> rendered.w, notes |-> <<>>]
        ELSE [w |-> beamByGroup(tiesForAll(rendered.w, default,
                                           Keys(rendered.w.cv.engineToRenderNotes)),
                                default, rendered.notes),
              notes |-> rendered.notes]

\* lines 139-150: the tuplet element takes the model's id
renderTuplet(w, default, model) ==
    LET childNotes == processNodes(w, default, model.children)
        tuplet == [NewElement(childNotes.w.elements, default,
                              [type |-> "Tuplet", notes |-> childNotes.notes,
                               numNotes |-> model.numNotes,
                               notesOccupied |-> model.notesOccupied])
                      EXCEPT ![Len(childNotes.w.elements) + 1].id = model.id]
    IN  IF ~childNotes.w.ok THEN childNotes
        ELSE [w |-> [childNotes.w EXCEPT !.elements = tuplet,
                                         !.cv = generateNoteMaps(@, model.id, model.id)],
              notes |-> childNotes.notes]

\* lines 91-108
getEngine2VexMap(cv) ==
    [i \in 1..Len(cv.engineToRenderNotes) |->
        LET engineID == cv.engineToRenderNotes[i].key
        IN  [key |-> engineID,
             value |-> IF HasKey(cv.engineToRenderTies, engineID)
                       THEN cv.engineToRenderNotes[i].value
                                \o Lookup(cv.engineToRenderTies, engineID)
                       ELSE cv.engineToRenderNotes[i].value]]

RECURSIVE Spread(_, _)
\* {...a, ...b}
Spread(a, b) == IF b = <<>> THEN a ELSE Spread(Assign(a, Head(b).key, Head(b).value), Tail(b))

\* variant: the tie ids are left out of the reverse map
getVex2EngineMap_NotesOnly(cv) == cv.renderNotesToEngine

\* lines 115-120
getVex2EngineMap(cv) == Spread(cv.renderNotesToEngine, cv.renderTiesToEngine)

\* converter c runs processNodes(models): the state it leaves behind, with
\* the positions of the elements the call created
Processed(c, models) ==
    LET r == processNodes([ok |-> TRUE, elements |-> elements, cv |-> converters[c]],
                          defaultRegistry, models)
    IN  [elements |-> r.w.elements,
         cv |-> [processed |-> TRUE, threw |-> ~r.w.ok, notes |-> r.notes,
                 created |-> (Len(elements) + 1)..Len(r.w.elements)] @@ r.w.cv]

-----------------------------------------------------------------------------
(* treeToVexflow(vexflowFactory, rootNode, meter) *)

\* Fraction.toString: "numerator/denominator"
FracToString(f) == <<f.numerator, "/", f.denominator>>

VexOffsets == {0}

InitVex ==
    /\ \E n \in 1..MaxNum, d \in MeterDenominators : meter = Fraction(n, d)
    /\ \E shape \in Shapes, k \in VexOffsets : rootNode = RhythmNode(shape, <<0>>, k)
    /\ callerOptions \in PreRenderConverterOptions
    /\ settings = <<>>
    /\ pc = "call"
    /\ nodes = <<>>
    /\ calls = {}
    /\ stack = <<>>
    /\ warnings = {}
    /\ probe = NoProbe
    /\ previous = NoRun
    /\ defaultRegistry = 0
    /\ elements = <<>>
    /\ converters = <<Unconstructed>>
    /\ output = NoOutput

\* lines 15-16: new PreRenderConverter(), new VexflowConverter(vexflowFactory);
\* the function takes three parameters, a further argument is not read
TreeToVexflowConstruct ==
    /\ pc = "call"
    /\ settings' = <<>> @@ defaultSettings
    /\ converters' = <<NewVexflowConverter(1)>>
    /\ defaultRegistry' = 1
    /\ pc' = "start"
    /\ UNCHANGED <<meter, rootNode, nodes, calls, stack, warnings, probe, previous,
                   callerOptions, elements, output>>

\* line 19: vexConverter.processNodes(nodes)
TreeToVexflowProcess ==
    /\ pc = "done"
    /\ converters # <<>>
    /\ previous = NoRun
    /\ LET r == Processed(1, nodes)
       IN  /\ elements' = r.elements
           /\ converters' = <<r.cv>>
           /\ pc' = IF r.cv.threw THEN "failed" ELSE "rendered"
    /\ UNCHANGED <<meter, rootNode, settings, nodes, calls, stack, warnings, probe,
                   previous, callerOptions, defaultRegistry, output>>

\* variant: the meter string is built from the meter as passed in
TreeToVexflowReturn_RawMeter ==
    /\ pc = "rendered"
    /\ output' = [returned |-> TRUE,
                  notes |-> converters[1].notes,
                  validMeterString |-> FracToString(meter),
                  vexToTree |-> getVex2EngineMap(converters[1]),
                  treeToVex |-> getEngine2VexMap(converters[1])]
    /\ pc' = "returned"
    /\ UNCHANGED <<meter, rootNode, settings, nodes, calls, stack, warnings, probe,
                   previous, callerOptions, defaultRegistry, elements, converters>>

\* lines 21-32
TreeToVexflowReturn ==
    /\ pc = "rendered"
    /\ LET validDenominator == convertDenominatorToValidDuration(meter.denominator)
           validMeter == Fraction(meter.numerator, validDenominator)
       IN  output' = [returned |-> TRUE,
                      notes |-> converters[1].notes,
                      validMeterString |-> FracToString(validMeter),
                      vexToTree |-> getVex2EngineMap(converters[1]),
                      treeToVex |-> getEngine2VexMap(converters[1])]
    /\ pc' = "returned"
    /\ UNCHANGED <<meter, rootNode, settings, nodes, calls, stack, warnings, probe,
                   previous, callerOptions, defaultRegistry, elements, converters>>

NextVex ==
    \/ TreeToVexflowConstruct
    \/ Next
    \/ TreeToVexflowProcess
    \/ TreeToVexflowReturn

SpecVex == InitVex /\ [][NextVex]_vars

-----------------------------------------------------------------------------
(* VexflowConverter instances used directly: each is constructed and then   *)
(* renders `nodes`; the steps of the two conversions interleave freely.     *)

RECURSIVE EvenShapesOf(_), EvenForestsOf(_)
\* the trees of exactly n nodes, all of size 1
EvenShapesOf(n) ==
    IF n = 0 THEN {}
    ELSE {[size |-> 1, children |-> f] : f \in EvenForestsOf(n - 1)}

EvenForestsOf(k) ==
    IF k = 0 THEN {<<>>}
    ELSE UNION {{<<t>> \o f : t \in EvenShapesOf(j), f \in EvenForestsOf(k - j)} : j \in 1..k}

\* a leaf beside a chain of three single children, the lower two of any size
ChainShapes ==
    LET Leaf(s) == [size |-> s, children |-> <<>>]
        Over(s, child) == [size |-> s, children |-> <<child>>]
    IN  {[size |-> 1, children |-> <<Leaf(1), Over(1, Over(a, Leaf(b)))>>] :
            a, b \in 1..MaxRenderSize}

RenderShapes == UNION {EvenShapesOf(n) : n \in 1..MaxRenderNodes} \cup ChainShapes

RenderOffsets == 0..(Len(LeafKinds) - 1)

Converters == {1, 2}

\* `nodes` is the classification of a small tree; processNodes does not read
\* the suffix of a tuplet
InitRender ==
    /\ \E n \in 1..MaxNum, d \in MeterDenominators : meter = Fraction(n, d)
    /\ \E shape \in RenderShapes, k \in RenderOffsets : rootNode = RhythmNode(shape, <<0>>, k)
    /\ \E opts \in PreRenderConverterOptions : settings = opts @@ defaultSettings
    /\ LET r == convertNode(rootNode,
                            Fraction(meter.numerator,
                                     convertDenominatorToValidDuration(meter.denominator)),
                            settings.maxTied)
       IN  nodes = r.els /\ calls = r.calls
    /\ pc = "render"
    /\ stack = <<>>
    /\ warnings = {}
    /\ probe = NoProbe
    /\ previous = NoRun
    /\ callerOptions = <<>>
    /\ defaultRegistry = 0
    /\ elements = <<>>
    /\ converters = [c \in Converters |-> Unconstructed]
    /\ output = NoOutput

\* new VexflowConverter(factory), lines 46-56
Construct(c) ==
    /\ pc = "render"
    /\ ~converters[c].constructed
    /\ converters' = [converters EXCEPT ![c] = NewVexflowConverter(c)]
    /\ defaultRegistry' = c
    /\ UNCHANGED <<pipelineVars, probe, previous, callerOptions, elements, output>>

\* converter.processNodes(nodes), lines 65-83
ProcessNodes(c) ==
    /\ pc = "render"
    /\ converters[c].constructed
    /\ ~converters[c].processed
    /\ LET r == Processed(c, nodes)
       IN  /\ elements' = r.elements
           /\ converters' = [converters EXCEPT ![c] = r.cv]
    /\ UNCHANGED <<pipelineVars, probe, previous, callerOptions, defaultRegistry, output>>

NextRender == \E c \in Converters : Construct(c) \/ ProcessNodes(c)

SpecRender == InitRender /\ [][NextRender]_vars

-----------------------------------------------------------------------------
(* Vocabulary of the properties *)

Notatable == {1, 2, 4, 8, 16, 32, 64, 128, 256}

\* the breakpoint table of the meter normalisation: <<first, last, value>>
Breakpoints ==
    <<<<1, 1, 1>>, <<2, 3, 2>>, <<4, 7, 4>>, <<8, 12, 8>>, <<13, 24, 16>>,
      <<25, 54, 32>>, <<55, 114, 64>>, <<115, 239, 128>>>>

Normalized(d) ==
    IF \E k \in 1..Len(Breakpoints) : Breakpoints[k][1] <= d /\ d <= Breakpoints[k][2]
    THEN LET k == CHOOSE k \in 1..Len(Breakpoints) :
                      Breakpoints[k][1] <= d /\ d <= Breakpoints[k][2]
         IN  Breakpoints[k][3]
    ELSE 256

RECURSIVE AllNodes(_)
AllNodes(node) ==
    {node} \cup UNION {AllNodes(node.children[c]) : c \in 1..Len(node.children)}

RECURSIVE AllTuplets(_)
AllTuplets(models) ==
    UNION {IF models[k].kind = "Tuplet"
           THEN {models[k]} \cup AllTuplets(models[k].children)
           ELSE {} : k \in 1..Len(models)}

NodeOf(id) == CHOOSE n \in AllNodes(rootNode) : n.id = id

CallsOf(id) == {c \in calls : c.id = id}

\* the suffix the post-pass gave to the tuplet of the given id
SuffixOf(id) == (CHOOSE t \in AllTuplets(nodes) : t.id = id).suffix

\* exact sum of 1/duration per note and notesOccupied/suffix per tuplet
RECURSIVE SpanSum(_)
SpanSum(els) ==
    IF els = <<>> THEN Fraction(0, 1)
    ELSE LET e == Head(els)
         IN  FracAdd(IF e.kind = "Note" THEN Fraction(1, e.duration)
                     ELSE Fraction(e.notesOccupied, SuffixOf(e.id)),
                     SpanSum(Tail(els)))

\* the reduced child unit span of a call on a node with children
UnitSpan(c) ==
    FracReduce(FracDivide(c.span, getChildrenTotalSize(NodeOf(c.id).children)))

Qualifies(c) ==
    UnitSpan(c).denominator \in Notatable /\ UnitSpan(c).numerator <= settings.maxTied

HasNested(models) ==
    \E t \in AllTuplets(models) : \E k \in 1..Len(t.children) : t.children[k].kind = "Tuplet"

-----------------------------------------------------------------------------
(* C1: after a successful conversion, for every node of the tree the       *)
(* elements the classifier returned for it sum (1/duration per note,       *)
(* notesOccupied/suffix per tuplet, with the suffix of the post-pass) to   *)
(* exactly the span the node was given; every node was given exactly one   *)
(* span, and the root's span is n / normalize(d).                          *)
C1_RoundTrip ==
    pc = "done" =>
        /\ \A n \in AllNodes(rootNode) : Cardinality(CallsOf(n.id)) = 1
        /\ \A c \in calls : FracEq(SpanSum(c.els), c.span)
        /\ \A c \in CallsOf(rootNode.id) :
              c.span = Fraction(meter.numerator, Normalized(meter.denominator))

C1_Witness ==
    /\ pc = "done"
    /\ HasNested(nodes)
    /\ \E c \in calls : c.branch = "leaf" /\ c.span.numerator > 1

(* C2: a node with children takes the plain/tied branch exactly when its   *)
(* reduced child unit span u has a notatable denominator and a numerator   *)
(* of at most maxTied; then no tuplet is created for the node and each     *)
(* child is classified with span u times the child's size.                 *)
C2_PlainBranch ==
    pc = "done" =>
        \A c \in calls : NodeOf(c.id).children # <<>> =>
            /\ (c.branch = "plain") <=> Qualifies(c)
            /\ c.branch = "plain" =>
                /\ \A t \in AllTuplets(nodes) : t.id # c.id
                /\ \A k \in 1..Len(NodeOf(c.id).children) :
                      LET child == NodeOf(c.id).children[k]
                      IN  \E cc \in CallsOf(child.id) :
                              FracEq(cc.span,
                                     Fraction(UnitSpan(c).numerator * child.size,
                                              UnitSpan(c).denominator))

C2_Witness ==
    /\ pc = "done"
    /\ \E c \in calls :
          /\ c.branch = "plain"
          /\ UnitSpan(c).numerator = settings.maxTied
          /\ \E k \in 1..Len(NodeOf(c.id).children) : NodeOf(c.id).children[k].size > 1

(* C3: a node with children that does not qualify for the plain branch     *)
(* yields exactly one tuplet with the node's id, numNotes = the sum of the *)
(* children's sizes and notesOccupied = the numerator of the span the node *)
(* was given, and each child is classified with span size / S.denominator; *)
(* a root with three leaf children of size 1 under 4/4 yields one group    *)
(* with numNotes = 3 and notesOccupied = 4.                                *)
ThreeEqualLeaves ==
    /\ Len(rootNode.children) = 3
    /\ \A k \in 1..3 : rootNode.children[k].size = 1 /\ rootNode.children[k].children = <<>>

C3_TupletBranch ==
    pc = "done" =>
        /\ \A c \in calls : (NodeOf(c.id).children # <<>> /\ ~Qualifies(c)) =>
              /\ Len(c.els) = 1
              /\ c.els[1].kind = "Tuplet"
              /\ c.els[1].id = c.id
              /\ c.els[1].numNotes = getChildrenTotalSize(NodeOf(c.id).children)
              /\ c.els[1].notesOccupied = c.span.numerator
              /\ \A k \in 1..Len(NodeOf(c.id).children) :
                    LET child == NodeOf(c.id).children[k]
                    IN  \E cc \in CallsOf(child.id) :
                            FracEq(cc.span, Fraction(child.size, c.span.denominator))
        /\ (meter = Fraction(4, 4) /\ ThreeEqualLeaves) =>
              /\ Len(nodes) = 1
              /\ nodes[1].kind = "Tuplet"
              /\ nodes[1].numNotes = 3
              /\ nodes[1].notesOccupied = 4

C3_Witness ==
    /\ pc = "done"
    /\ meter = Fraction(4, 4)
    /\ ThreeEqualLeaves
    /\ \E c \in calls : c.branch = "tuplet" /\ c.span.numerator # UnitSpan(c).numerator

(* C4: with maxTied = 3, leaf emission is never handed a non-rest leaf     *)
(* whose span numerator exceeds maxTied, and no leaf is emitted as a run   *)
(* of more than maxTied notes sharing its id.                              *)
C4_LeafWithinCap ==
    settings.maxTied = 3 =>
        \A c \in calls : (c.branch = "leaf" /\ ~NodeOf(c.id).isRest) =>
            /\ c.span.numerator <= settings.maxTied
            /\ Len(c.els) <= settings.maxTied

-----------------------------------------------------------------------------
(* Properties of leaf emission, on the directly applied convertToNote *)

Flag(e, f) == f \in DOMAIN e /\ e[f] = TRUE

Emitted ==
    /\ probe.op = "convertToNote"
    /\ "out" \in DOMAIN probe
    /\ probe.node.children = <<>>
    /\ probe.containingSpace.denominator \in Notatable

(* C5: a non-rest leaf with span k/D, D notatable and k > 1, is emitted as *)
(* exactly k notes with the leaf's id and duration D, the first k-1 tied   *)
(* and the last not tied; the accent flag is on exactly the first note if  *)
(* the leaf is accented and on no note otherwise.                          *)
C5_TiedRun ==
    (Emitted /\ ~probe.node.isRest /\ probe.containingSpace.numerator > 1) =>
        LET k == probe.containingSpace.numerator
            els == probe.out.els
        IN  /\ probe.out.ok
            /\ Len(els) = k
            /\ \A i \in 1..Len(els) :
                  /\ els[i].kind = "Note"
                  /\ els[i].id = probe.node.id
                  /\ els[i].duration = probe.containingSpace.denominator
                  /\ "isTied" \in DOMAIN els[i]
                  /\ els[i].isTied = (i < k)
                  /\ Flag(els[i], "isAccented") <=> (probe.node.isAccented /\ i = 1)

C5_Witness ==
    /\ Emitted
    /\ ~probe.node.isRest
    /\ probe.node.isAccented
    /\ probe.containingSpace = Fraction(3, 8)
    /\ Len(probe.out.els) = 3

(* C6: a rest leaf with span k/D, D notatable and k > 1, is emitted as     *)
(* exactly k notes of duration D that are all rests, none tied and none    *)
(* accented, whatever the leaf's isAccented.                               *)
C6_RestRun ==
    (Emitted /\ probe.node.isRest /\ probe.containingSpace.numerator > 1) =>
        LET els == probe.out.els
        IN  /\ probe.out.ok
            /\ Len(els) = probe.containingSpace.numerator
            /\ \A i \in 1..Len(els) :
                  /\ els[i].kind = "Note"
                  /\ els[i].duration = probe.containingSpace.denominator
                  /\ Flag(els[i], "isRest")
                  /\ ~Flag(els[i], "isTied")
                  /\ ~Flag(els[i], "isAccented")

C6_Witness ==
    /\ Emitted
    /\ probe.node.isRest
    /\ probe.node.isAccented
    /\ probe.containingSpace.numerator = 3
    /\ Len(probe.out.els) = 3

(* C7: a leaf with span 1/D, D notatable, is emitted as exactly one note   *)
(* with the leaf's id, duration D, isTied = false, and the leaf's isRest,  *)
(* isAccented and beamID.                                                  *)
C7_SingleNote ==
    (Emitted /\ probe.containingSpace.numerator = 1) =>
        LET els == probe.out.els
        IN  /\ probe.out.ok
            /\ Len(els) = 1
            /\ els[1].kind = "Note"
            /\ els[1].id = probe.node.id
            /\ els[1].duration = probe.containingSpace.denominator
            /\ "isTied" \in DOMAIN els[1] /\ els[1].isTied = FALSE
            /\ els[1].isRest = probe.node.isRest
            /\ els[1].isAccented = probe.node.isAccented
            /\ els[1].beamID = probe.node.beamID

-----------------------------------------------------------------------------
(* C8: for every positive denominator d, convertDenominatorToValidDuration *)
(* returns the value of the breakpoint table (1; 2..3; 4..7; 8..12;        *)
(* 13..24; 25..54; 55..114; 115..239; 240 and above), a member of          *)
(* {1,2,4,8,16,32,64,128,256}.                                             *)
C8_BreakpointTable ==
    (probe.op = "convertDenominatorToValidDuration" /\ "out" \in DOMAIN probe) =>
        /\ probe.out = Normalized(probe.denominator)
        /\ probe.out \in Notatable

C8_Witness ==
    /\ probe.op = "convertDenominatorToValidDuration"
    /\ "out" \in DOMAIN probe
    /\ probe.denominator = 240
    /\ probe.out = 256

-----------------------------------------------------------------------------
(* Properties of the suffix post-pass *)

\* exact sum of the direct children of a tuplet whose nested tuplets have a suffix
RECURSIVE ChildrenTotal(_)
ChildrenTotal(children) ==
    IF children = <<>> THEN Fraction(0, 1)
    ELSE LET e == Head(children)
         IN  FracAdd(IF e.kind = "Note" THEN Fraction(1, e.duration)
                     ELSE Fraction(e.notesOccupied, e.suffix),
                     ChildrenTotal(Tail(children)))

NestedSuffixed(t) ==
    \A k \in 1..Len(t.children) :
        t.children[k].kind = "Tuplet" =>
            HasSuffix(t.children[k]) /\ t.children[k].suffix \in Nat \ {0}

(* C9: every tuplet with at least one child and numNotes > 0 gets, from    *)
(* the post-pass, suffix = denominator of reduce(T / numNotes), T being    *)
(* the exact sum over its direct children of 1/duration per note and       *)
(* notesOccupied/suffix per nested tuplet; three eighth-note children with *)
(* numNotes = 3 give suffix 8.                                             *)
ThreeEighths(t) ==
    /\ t.numNotes = 3
    /\ Len(t.children) = 3
    /\ \A k \in 1..3 : t.children[k].kind = "Note" /\ t.children[k].duration = 8

C9_SuffixValue ==
    /\ \A t \in AllTuplets(nodes) :
          (HasSuffix(t) /\ NestedSuffixed(t) /\ Len(t.children) >= 1 /\ t.numNotes > 0) =>
              /\ t.suffix =
                    FracReduce(FracDivide(ChildrenTotal(t.children), t.numNotes)).denominator
              /\ ThreeEighths(t) => t.suffix = 8
    /\ pc = "done" =>
          \A t \in AllTuplets(nodes) :
              (Len(t.children) >= 1 /\ t.numNotes > 0) => HasSuffix(t)

C9_Witness ==
    /\ pc = "done"
    /\ \E t \in AllTuplets(nodes) : ThreeEighths(t) /\ t.suffix = 8
    /\ \E t \in AllTuplets(nodes) : \E k \in 1..Len(t.children) :
          t.children[k].kind = "Tuplet" /\ t.children[k].notesOccupied > 1

(* C10: during the post-pass a nested tuplet has its suffix before its     *)
(* parent's total takes it in and before the parent gets its own suffix,   *)
(* and when convertTreeToPreRender returns every tuplet at every depth     *)
(* has a positive integer suffix.                                          *)
C10_ChildrenFirst ==
    /\ \A t \in AllTuplets(nodes) : HasSuffix(t) => NestedSuffixed(t)
    /\ \A f \in 1..Len(stack) :
          stack[f].j >= 1 =>
              LET t == At(nodes, stack[f].models[stack[f].i])
              IN  \A k \in 1..(stack[f].j - 1) :
                      t.children[k].kind = "Tuplet" =>
                          HasSuffix(t.children[k]) /\ t.children[k].suffix \in Nat \ {0}
    /\ pc = "done" =>
          \A t \in AllTuplets(nodes) : HasSuffix(t) /\ t.suffix \in Nat \ {0}

C10_Witness ==
    /\ pc = "done"
    /\ HasNested(nodes)
    /\ \A t \in AllTuplets(nodes) : HasSuffix(t) /\ t.suffix > 0

-----------------------------------------------------------------------------
(* C11: leaf emission for a childless node whose span denominator is not   *)
(* notatable throws and emits no note, and a classification that reaches   *)
(* such a leaf returns no element sequence at all.                         *)
C11_MalformedLeaf ==
    /\ (/\ probe.op = "convertToNote"
        /\ "out" \in DOMAIN probe
        /\ probe.node.children = <<>>
        /\ probe.containingSpace.denominator \notin Notatable)
           => (~probe.out.ok /\ probe.out.els = <<>>)
    /\ (/\ probe.op = "convertNode"
        /\ "out" \in DOMAIN probe
        /\ \E c \in probe.out.calls :
              /\ \E n \in AllNodes(probe.node) : n.id = c.id /\ n.children = <<>>
              /\ c.span.denominator \notin Notatable)
           => (~probe.out.ok /\ probe.out.els = <<>>)

C11_Witness ==
    /\ probe.op = "convertNode"
    /\ "out" \in DOMAIN probe
    /\ Len(probe.node.children) = 2
    /\ probe.containingSpace.denominator = 3
    /\ ~probe.out.ok

(* C12: a second convertTreeToPreRender call with the same meter, tree and *)
(* maxTied, on the same converter or on a new one, returns the same        *)
(* sequence as the first: same ids, durations, flags, nesting, numNotes,   *)
(* notesOccupied and suffix.                                               *)
C12_Idempotent ==
    (pc = "done" /\ previous.runs = 1) => nodes = previous.nodes

C12_Witness ==
    /\ pc = "done"
    /\ previous.runs = 1
    /\ \E t \in AllTuplets(nodes) :
          HasSuffix(t) /\ \E k \in 1..Len(t.children) : Flag(t.children[k], "isTied")

-----------------------------------------------------------------------------
(* Properties of treeToVexflow *)

\* the span the classifier was handed for the root
RootSpan == (CHOOSE c \in calls : c.id = rootNode.id).span

(* C13: for every meter n/d the span handed to the classifier for the root  *)
(* and the validMeterString that treeToVexflow returns are the same         *)
(* fraction: numerator n, neither rescaled nor reduced, over the normalised *)
(* denominator.                                                             *)
C13_ValidMeter ==
    output.returned =>
        /\ RootSpan.numerator = meter.numerator
        /\ RootSpan.denominator = Normalized(meter.denominator)
        /\ output.validMeterString = <<RootSpan.numerator, "/", RootSpan.denominator>>

C13_Witness ==
    /\ output.returned
    /\ meter = Fraction(3, 12)
    /\ output.validMeterString = <<3, "/", 8>>

\* the cap the caller asked for
SuppliedCap == IF "maxTied" \in DOMAIN callerOptions THEN callerOptions.maxTied ELSE 3

(* C15: the maxTied the caller supplies to treeToVexflow is the cap of the  *)
(* PreRenderConverter it creates and the cap the classifier applies in the  *)
(* plain-versus-tuplet decision; with none supplied the cap is 3.           *)
C15_MaxTiedOption ==
    pc # "call" =>
        /\ settings.maxTied = SuppliedCap
        /\ \A c \in calls : NodeOf(c.id).children # <<>> =>
              ((c.branch = "plain") <=>
                  (UnitSpan(c).denominator \in Notatable /\ UnitSpan(c).numerator <= SuppliedCap))

-----------------------------------------------------------------------------
(* Properties of VexflowConverter *)

Done(c) == converters[c].constructed /\ converters[c].processed /\ ~converters[c].threw

\* the elements of the given type that converter c's processNodes created
CreatedBy(c, type) == {e \in converters[c].created : elements[e].type = type}

Listed(map, key, v) ==
    HasKey(map, key) /\ \E k \in 1..Len(Lookup(map, key)) : Lookup(map, key)[k] = v

(* C14: after processNodes the maps of getEngine2VexMap and                 *)
(* getVex2EngineMap are mutual inverses: v is listed under e in treeToVex   *)
(* exactly when vexToTree maps v to e, and the id of every note and every   *)
(* tie the call created is in both maps.                                    *)
C14_InverseMaps ==
    \A c \in Converters : Done(c) =>
        LET treeToVex == getEngine2VexMap(converters[c])
            vexToTree == getVex2EngineMap(converters[c])
            sources == {treeToVex[i].key : i \in 1..Len(treeToVex)}
                           \cup {vexToTree[i].value : i \in 1..Len(vexToTree)}
            visuals == {vexToTree[i].key : i \in 1..Len(vexToTree)}
                           \cup UNION {{treeToVex[i].value[k] : k \in 1..Len(treeToVex[i].value)} :
                                           i \in 1..Len(treeToVex)}
        IN  /\ \A e \in sources, v \in visuals :
                  Listed(treeToVex, e, v) <=> (HasKey(vexToTree, v) /\ Lookup(vexToTree, v) = e)
            /\ \A x \in CreatedBy(c, "StaveNote") \cup CreatedBy(c, "StaveTie") :
                  /\ HasKey(vexToTree, elements[x].id)
                  /\ \E e \in sources : Listed(treeToVex, e, elements[x].id)

C14_Witness ==
    \E c \in Converters :
        /\ Done(c)
        /\ Cardinality(CreatedBy(c, "StaveTie")) >= 2
        /\ CreatedBy(c, "Tuplet") # {}

\* an opaque visual id of converter cv described by what it stands for: a
\* note by its place among the notes of its source, a tie by the places of
\* the notes it joins
Describe(cv, elems, engineID, v) ==
    LET rendered == Lookup(cv.engineToRenderNotes, engineID)
        place(id) == CHOOSE k \in 1..Len(rendered) : rendered[k] = id
    IN  IF v[1] # -1 THEN <<"Tuplet", 0, 0>>
        ELSE IF elems[v[2]].type = "StaveNote" THEN <<"StaveNote", place(v), 0>>
        ELSE <<"StaveTie", place(elems[elems[v[2]].from].id), place(elems[elems[v[2]].to].id)>>

\* the two maps of a converter with every visual id replaced by its description
Renamed(cv, elems) ==
    LET treeToVex == getEngine2VexMap(cv)
        vexToTree == getVex2EngineMap(cv)
    IN  [treeToVex |-> [i \in 1..Len(treeToVex) |->
                           [key |-> treeToVex[i].key,
                            value |-> [k \in 1..Len(treeToVex[i].value) |->
                                          Describe(cv, elems, treeToVex[i].key,
                                                   treeToVex[i].value[k])]]],
         vexToTree |-> {<<Describe(cv, elems, vexToTree[i].value, vexToTree[i].key),
                          vexToTree[i].value>> : i \in 1..Len(vexToTree)}]

\* what converter c produces when its conversion is the only one
Alone(c) ==
    processNodes([ok |-> TRUE, elements |-> <<>>, cv |-> NewVexflowConverter(c)], c, nodes).w

(* C16: when the steps of two conversions interleave, each produces the     *)
(* same ties and the same treeToVex and vexToTree maps, up to the renaming  *)
(* of the opaque visual ids, as it produces when it runs alone.             *)
C16_Isolation ==
    \A c \in Converters : Done(c) =>
        Renamed(converters[c], elements) = Renamed(Alone(c).cv, Alone(c).elements)

\* the element of converter c's processNodes call that carries visual id v
NoteOf(c, v) == CHOOSE e \in CreatedBy(c, "StaveNote") : elements[e].id = v

SourceOf(c, e) == Lookup(converters[c].renderNotesToEngine, elements[e].id)

(* C17: after processNodes, for every source id with rendered notes r1..rn  *)
(* a tie from ri to ri+1 exists for each consecutive pair of which neither  *)
(* is a rest, and no tie starts or ends at a rest or joins notes of         *)
(* different source ids.                                                    *)
C17_Ties ==
    \A c \in Converters : Done(c) =>
        /\ \A i \in 1..Len(converters[c].engineToRenderNotes) :
              LET r == converters[c].engineToRenderNotes[i].value
              IN  \A k \in 1..(Len(r) - 1) :
                      (~elements[NoteOf(c, r[k])].rest /\ ~elements[NoteOf(c, r[k + 1])].rest) =>
                          \E t \in CreatedBy(c, "StaveTie") :
                              /\ elements[t].from = NoteOf(c, r[k])
                              /\ elements[t].to = NoteOf(c, r[k + 1])
        /\ \A t \in CreatedBy(c, "StaveTie") :
              /\ ~elements[elements[t].from].rest
              /\ ~elements[elements[t].to].rest
              /\ SourceOf(c, elements[t].from) = SourceOf(c, elements[t].to)

\* the notes of converter c's call that carry the given beamID attribute
BeamGroup(c, gid) ==
    {e \in CreatedBy(c, "StaveNote") : "beamID" \in DOMAIN elements[e] /\ elements[e].beamID = gid}

\* shorter than a quarter note
Beamable(e) == elements[e].duration \in {"8", "16", "32", "64", "128", "256"}

(* C18: processNodes creates a beam over notes sharing a beamID only when   *)
(* the group of that beamID has at least two notes and every note of the    *)
(* group is beam-eligible; a group with an ineligible note, a group of one  *)
(* note and notes without a beamID never get a beam.                        *)
C18_Beams ==
    \A c \in Converters : Done(c) =>
        \A b \in CreatedBy(c, "Beam") :
            \A k \in 1..Len(elements[b].notes) :
                LET note == elements[elements[b].notes[k]]
                IN  /\ "beamID" \in DOMAIN note
                    /\ Cardinality(BeamGroup(c, note.beamID)) >= 2
                    /\ \A e \in BeamGroup(c, note.beamID) : Beamable(e)

-----------------------------------------------------------------------------
\* the span a node with children was given still has, after the child unit
\* span was computed from it, the numerator and denominator its tuplet uses
SpansKept ==
    \A c \in calls : c.branch = "tuplet" =>
        /\ c.els[1].notesOccupied = c.span.numerator
        /\ \A k \in 1..Len(NodeOf(c.id).children) :
              \E cc \in CallsOf(NodeOf(c.id).children[k].id) :
                  cc.span = Fraction(NodeOf(c.id).children[k].size, c.span.denominator)

-----------------------------------------------------------------------------
\* a tuplet the post-pass must reject
Offending(t) == Len(t.children) = 0 \/ t.numNotes = 0

\* the post-pass stands at the head of its loop, on a tuplet
AtTuplet ==
    /\ pc = "addSuffix"
    /\ stack # <<>>
    /\ Top.j = 0
    /\ Top.i <= Len(Top.models)
    /\ Current.kind = "Tuplet"

\* a nested addSuffix([child]) is about to return to its caller
Returning == pc = "addSuffix" /\ Len(stack) > 1 /\ Top.j = 0 /\ Top.i > Len(Top.models)

ReturnedChild ==
    LET caller == stack[Len(stack) - 1]
    IN  At(nodes, caller.models[caller.i]).children[caller.j]

(* C20: the post-pass fails with an error, giving the offending tuplet no   *)
(* suffix, when it meets a tuplet with zero children or numNotes = 0, or a  *)
(* nested tuplet whose suffix is missing or 0 when its parent needs it; a   *)
(* pass over such a tuplet never completes.                                 *)
C20_SuffixErrors ==
    /\ [][(AtTuplet /\ Offending(Current)) => (pc' = "failed" /\ nodes' = nodes)]_vars
    /\ [][(Returning /\ (~HasSuffix(ReturnedChild) \/ ReturnedChild.suffix = 0))
              => (pc' = "failed" /\ nodes' = nodes)]_vars
    /\ [](\A t \in AllTuplets(nodes) : Offending(t) => ~HasSuffix(t))
    /\ [](pc = "done" => \A t \in AllTuplets(nodes) : ~Offending(t))

C20_Witness ==
    /\ pc = "failed"
    /\ \E t \in AllTuplets(nodes) : Len(t.children) > 0 /\ t.numNotes = 0 /\ ~HasSuffix(t)
    /\ \E t \in AllTuplets(nodes) : HasSuffix(t)

-----------------------------------------------------------------------------
(* Properties of the order of the returned elements *)

\* the NoteElements of a sequence, left to right through all nesting depths
RECURSIVE NotesOf(_)
NotesOf(models) ==
    IF models = <<>> THEN <<>>
    ELSE (IF Head(models).kind = "Note" THEN <<Head(models)>>
          ELSE NotesOf(Head(models).children)) \o NotesOf(Tail(models))

IdsOf(els) == [i \in 1..Len(els) |-> els[i].id]

\* the ids of the leaves of a tree, depth first, left to right
RECURSIVE LeafIds(_), ForestLeafIds(_)
LeafIds(node) ==
    IF Len(node.children) = 0 THEN <<node.id>> ELSE ForestLeafIds(node.children)

ForestLeafIds(ns) ==
    IF ns = <<>> THEN <<>> ELSE LeafIds(Head(ns)) \o ForestLeafIds(Tail(ns))

\* a sequence with every run of equal neighbours reduced to one entry
RECURSIVE Collapsed(_)
Collapsed(s) ==
    IF Len(s) <= 1 THEN s
    ELSE IF s[1] = s[2] THEN Collapsed(Tail(s))
    ELSE <<s[1]>> \o Collapsed(Tail(s))

(* C21: once the classifier has returned, the ids of the NoteElements of    *)
(* the result, read left to right through all nesting depths, are the ids   *)
(* of the tree's leaves in depth-first left-to-right order, each leaf being *)
(* present as one unbroken run of at least one NoteElement.                 *)
C21_SourceOrder ==
    pc \in {"addSuffix", "done"} =>
        Collapsed(IdsOf(NotesOf(nodes))) = LeafIds(rootNode)

\* three leaves, one of them a run of notes, spread over the top level and a tuplet
C21_Witness ==
    /\ pc = "done"
    /\ Len(LeafIds(rootNode)) >= 3
    /\ Len(NotesOf(nodes)) > Len(LeafIds(rootNode))
    /\ \E k \in 1..Len(nodes) : nodes[k].kind = "Note"
    /\ \E k \in 1..Len(nodes) : nodes[k].kind = "Tuplet" /\ Len(nodes[k].children) >= 2

\* the sequences of a result: the top-level one and the children of every tuplet
SequencesOf(models) == {models} \cup {t.children : t \in AllTuplets(models)}

\* every tied note of s has its continuation right behind it
TieClosed(s) ==
    \A i \in 1..Len(s) :
        (s[i].kind = "Note" /\ Flag(s[i], "isTied")) =>
            /\ i < Len(s)
            /\ s[i + 1].kind = "Note"
            /\ s[i + 1].id = s[i].id
            /\ s[i + 1].duration = s[i].duration
            /\ ~Flag(s[i + 1], "isRest")

(* C22: in the top-level sequence of the result and in the children of     *)
(* every tuplet, a note with isTied = true is directly followed in that    *)
(* sequence by a note of the same id and duration that is not a rest; in   *)
(* particular the last element of a sequence is never tied.                *)
C22_TiedFollowed ==
    pc \in {"addSuffix", "done"} => \A s \in SequencesOf(nodes) : TieClosed(s)

\* a tied run inside a tuplet, followed there by the notes of another leaf
C22_Witness ==
    /\ pc = "done"
    /\ \E t \in AllTuplets(nodes) : \E i \in 1..Len(t.children) :
          /\ Flag(t.children[i], "isTied")
          /\ i + 1 < Len(t.children)
          /\ t.children[i + 2].id # t.children[i].id
    /\ \E c \in calls : c.branch = "leaf" /\ NodeOf(c.id).isRest /\ Len(c.els) > 1

(* C23: every tuplet of the result gets, from the post-pass, a suffix equal *)
(* to the denominator of the span its source node was given; the unit size  *)
(* the post-pass computes always has numerator 1, so no non-unit warning is *)
(* raised; and every tuplet has its suffix when the result is returned.     *)
C23_SuffixOfSpan ==
    /\ warnings = {}
    /\ \A t \in AllTuplets(nodes) :
          HasSuffix(t) => \A c \in CallsOf(t.id) : t.suffix = c.span.denominator
    /\ pc = "done" => \A t \in AllTuplets(nodes) : HasSuffix(t) /\ CallsOf(t.id) # {}

\* a tuplet nested in a tuplet, one of them over a span of several fine units
C23_Witness ==
    /\ pc = "done"
    /\ HasNested(nodes)
    /\ \E t \in AllTuplets(nodes) : t.notesOccupied > 1 /\ t.suffix = 128
    /\ \E t \in AllTuplets(nodes) : \E c \in CallsOf(t.id) :
          c.span.numerator > 1 /\ t.suffix = c.span.denominator

-----------------------------------------------------------------------------
(* C24: for a meter and a tree of positive integers the conversion never   *)
(* fails and never stops short of returning: every span handed to a node   *)
(* has a denominator in {1,2,4,...,256}, no call throws, every note at     *)
(* every depth has such a duration, and a node whose child unit span has a *)
(* denominator beyond 256 becomes a tuplet.                                *)
C24_NoError ==
    /\ pc # "failed"
    /\ \A c \in calls :
          /\ c.span.denominator \in Notatable
          /\ c.branch # "thrown"
          /\ (NodeOf(c.id).children # <<>> /\ UnitSpan(c).denominator > 256) =>
                c.branch = "tuplet"
    /\ \A k \in 1..Len(NotesOf(nodes)) : NotesOf(nodes)[k].duration \in Notatable
    /\ pc = "done" => \A n \in AllNodes(rootNode) : CallsOf(n.id) # {}

\* a node under a 1/256 span whose children would need 1/512
C24_Witness ==
    /\ pc = "done"
    /\ meter.denominator = 300
    /\ \E c \in calls : c.branch = "tuplet" /\ UnitSpan(c).denominator = 512
    /\ \E k \in 1..Len(NotesOf(nodes)) : NotesOf(nodes)[k].duration = 256

-----------------------------------------------------------------------------
(* Properties of the ties in the maps treeToVexflow returns *)

\* the notes of the pre-render result that carry the given source id
NotesWithId(id) == {k \in 1..Len(NotesOf(nodes)) : NotesOf(nodes)[k].id = id}

\* the source id was rendered as notes that all sound
SoundingRun(id) ==
    /\ NotesWithId(id) # {}
    /\ \A k \in NotesWithId(id) : ~Flag(NotesOf(nodes)[k], "isRest")

\* the type of the VexFlow element that carries the given id
TypeOf(v) == elements[CHOOSE e \in 1..Len(elements) : elements[e].id = v].type

(* C25: in the maps returned after one top-level processNodes call, a      *)
(* source id rendered as a run of n sounding notes is mapped by treeToVex  *)
(* to its n note ids followed by exactly n - 1 tie ids, whether or not the *)
(* sequence holds tuplets.                                                 *)
C25_TiesOnce ==
    output.returned =>
        \A i \in 1..Len(output.treeToVex) :
            LET id == output.treeToVex[i].key
                listed == output.treeToVex[i].value
                n == Cardinality(NotesWithId(id))
            IN  SoundingRun(id) =>
                    /\ Len(listed) = n + (n - 1)
                    /\ \A k \in 1..Len(listed) :
                          TypeOf(listed[k]) = IF k <= n THEN "StaveNote" ELSE "StaveTie"

====
